---- MODULE Spec2Model ----
(***************************************************************************)
(* Model of the Firestore document-mapping layer of gcp-pilot              *)
(* (src/gcp_pilot/firestore): the ambient write batch (atomic.py), the     *)
(* Manager (manager.py), the Document (document.py) and the Query          *)
(* (query.py) and the Paginator (paginator.py).  The document store       *)
(* behind the driver is one collection, a function from the stored        *)
(* primary keys to their field data.                                       *)
(***************************************************************************)
EXTENDS Integers, Sequences, FiniteSets, TLC

(* ------------------------------ bounds -------------------------------- *)
MaxId == 1
MaxBatches == 2
MaxOps == 2
MaxDocs == 1
MaxQueries == 3
MaxStored == 3
MaxLimit == 2
MaxPerPage == 2
MaxIters == 2
MaxAddr == 2
MaxCalls == 3

(* ------------------------------ inputs -------------------------------- *)
Tasks == {"t1", "t2"}
DocTask == "t1"
FieldNames == {"name", "price"}
FieldValues == {1, 2}
\* full field data of a Product, as passed to Manager.create
FullData == [FieldNames -> FieldValues]
CreateInputs == {[name |-> 1, price |-> 1]}
\* keyword arguments of a partial update
UpdateInputs == {[price |-> 2]}
NoPk == 0
NoBatch == 0
NoLimit == -1
NoCount == -1
NoParent == 0
\* the manager of the class itself: cls.documents
TopManager == 0
\* the instance has not read its Subcollection attribute yet
NoManager == 0
NoClient == 0

VARIABLES
    store,      \* the collection: [stored pks -> field data]
    nextId,     \* next identifier CollectionReference.document() allocates
    active,     \* _active_batch per task context (NoBatch is None)
    scope,      \* batch whose `async with` body the task is inside (NoBatch: none)
    batches,    \* the AsyncWriteBatch objects created so far
    last,       \* outcome of the operation that was executed last
    docs,       \* Document instances held by the caller
    queries,    \* Query objects
    lists,      \* list objects the Query objects refer to
    pagers,     \* Paginator objects
    iters,      \* async generators made by Paginator.__aiter__
    heap,       \* addresses of the live Document instances: id(instance)
    managers,   \* Manager objects made by Subcollection.__get__
    cache,      \* Subcollection._manager_cache: [id(instance) -> Manager]
    substore,   \* the documents of the subcollections: [<<parent pk, pk>> -> field data]
    client,     \* Manager._client: the handle of the class (NoClient is None)
    clients     \* the driver clients constructed so far, by constructing site

batchVars == <<active, scope, batches>>
docVars == <<docs>>
queryVars == <<queries, lists>>
pageVars == <<pagers, iters>>
subVars == <<heap, managers, cache, substore>>
clientVars == <<client, clients>>
vars == <<store, nextId, active, scope, batches, last, docs, queries, lists, pagers, iters,
          heap, managers, cache, substore, client, clients>>

(* ------------------------------ driver -------------------------------- *)
Stored(pk) == pk \in DOMAIN store

\* DocumentReference.set(data): create or overwrite
DriverSet(st, pk, data) == [p \in DOMAIN st \cup {pk} |-> IF p = pk THEN data ELSE st[p]]

\* field-wise merge performed by DocumentReference.update(data)
MergeData(old, data) ==
    [f \in DOMAIN old \cup DOMAIN data |-> IF f \in DOMAIN data THEN data[f] ELSE old[f]]

\* DocumentReference.update(data) on a stored document
DriverUpdate(st, pk, data) == [st EXCEPT ![pk] = MergeData(st[pk], data)]

\* DocumentReference.delete(): removing a missing document is no error
DriverDelete(st, pk) == [p \in DOMAIN st \ {pk} |-> st[p]]

\* one write of a batch applied to the state the commit has built so far;
\* an update of a missing document fails the write
WriteOk(st, w) == w.kind = "update" => w.pk \in DOMAIN st

ApplyWrite(st, w) ==
    CASE w.kind = "set" -> DriverSet(st, w.pk, w.data)
      [] w.kind = "update" -> DriverUpdate(st, w.pk, w.data)
      [] w.kind = "delete" -> DriverDelete(st, w.pk)

RECURSIVE CommitResult(_, _)
\* AsyncWriteBatch.commit(): the writes in order, all or nothing
CommitResult(st, ws) ==
    IF ws = <<>> THEN [ok |-> TRUE, st |-> st]
    ELSE IF ~WriteOk(st, Head(ws)) THEN [ok |-> FALSE, st |-> st]
    ELSE CommitResult(ApplyWrite(st, Head(ws)), Tail(ws))

(* --------------------------- Manager.client --------------------------- *)
\* a client property that constructs a handle at every read
ManagerClientFresh ==
    /\ client' = Len(clients) + 1
    /\ clients' = Append(clients, "Manager.client")

\* Manager.client: the handle of the class, constructed at the first read
ManagerClient ==
    /\ client' = IF client = NoClient THEN Len(clients) + 1 ELSE client
    /\ clients' = IF client = NoClient THEN Append(clients, "Manager.client") ELSE clients

(* --------------------------- atomic.batch ----------------------------- *)
NoEvent == [task |-> "none", op |-> "none", outcome |-> "none", pk |-> NoPk, inst |-> 0, args |-> <<>>]

Event(t, op, outcome, pk) ==
    [task |-> t, op |-> op, outcome |-> outcome, pk |-> pk, inst |-> 0, args |-> <<>>]

\* the outcome of a method of the Document instance docs[i]
DocEvent(t, op, outcome, pk, i) ==
    [task |-> t, op |-> op, outcome |-> outcome, pk |-> pk, inst |-> i, args |-> <<>>]

\* _active_batch.get() in the context of task t
ActiveBatch(t) == active[t]

\* a module-level variable instead of a context variable
SetActiveGlobal(t, b) == [u \in DOMAIN active |-> b]

\* _active_batch.set(b) and _active_batch.reset(token) in the context of task t
SetActive(t, b) == [active EXCEPT ![t] = b]

NewBatch(t) == [owner |-> t, ops |-> <<>>, exit |-> "open", commits |-> 0]

\* batch.set / batch.update / batch.delete: enqueue on the batch object
\* (a write records in `by` the task that issued it)
Stage(b, w) == [batches EXCEPT ![b].ops = Append(@, w)]

RECURSIVE StagedCount(_)
\* number of writes enqueued on the first n batches
StagedCount(n) == IF n = 0 THEN 0 ELSE Len(batches[n].ops) + StagedCount(n - 1)

\* entry without the check for a batch that is already active
BatchEnterNested(t) ==
    /\ batches' = Append(batches, NewBatch(t))
    /\ active' = SetActive(t, Len(batches) + 1)
    /\ scope' = [scope EXCEPT ![t] = Len(batches) + 1]
    /\ last' = Event(t, "enter", "ok", NoPk)
    /\ clients' = Append(clients, "atomic.batch")
    /\ UNCHANGED <<store, nextId, client>>

\* `async with batch():` entered by task t
BatchEnter(t) ==
    IF ActiveBatch(t) # NoBatch
    THEN /\ last' = Event(t, "enter", "RuntimeError", NoPk)
         /\ UNCHANGED <<store, nextId, active, scope, batches, clientVars>>
    ELSE /\ batches' = Append(batches, NewBatch(t))
         /\ active' = SetActive(t, Len(batches) + 1)
         /\ scope' = [scope EXCEPT ![t] = Len(batches) + 1]
         /\ last' = Event(t, "enter", "ok", NoPk)
         /\ clients' = Append(clients, "atomic.batch")
         /\ UNCHANGED <<store, nextId, client>>

\* the body finished: commit, then the finally clause resets the handle
BatchExitNormal(t) ==
    /\ scope[t] # NoBatch
    /\ LET b == scope[t]
           r == CommitResult(store, batches[b].ops)
       IN /\ store' = r.st
          /\ batches' = [batches EXCEPT ![b].commits = @ + 1,
                                        ![b].exit = IF r.ok THEN "normal" ELSE "commit_failed"]
          /\ last' = Event(t, "exit", IF r.ok THEN "ok" ELSE "NotFound", NoPk)
    /\ active' = SetActive(t, NoBatch)
    /\ scope' = [scope EXCEPT ![t] = NoBatch]
    /\ UNCHANGED <<nextId, clientVars>>

\* commit placed in the finally clause: it runs on an exception too
BatchExitRaiseCommits(t) ==
    /\ scope[t] # NoBatch
    /\ LET b == scope[t]
           r == CommitResult(store, batches[b].ops)
       IN /\ store' = r.st
          /\ batches' = [batches EXCEPT ![b].commits = @ + 1, ![b].exit = "raised"]
    /\ last' = Event(t, "exit", "raised", NoPk)
    /\ active' = SetActive(t, NoBatch)
    /\ scope' = [scope EXCEPT ![t] = NoBatch]
    /\ UNCHANGED <<nextId, clientVars>>

\* no finally clause: an exception leaves the handle published
BatchExitRaiseNoReset(t) ==
    /\ scope[t] # NoBatch
    /\ batches' = [batches EXCEPT ![scope[t]].exit = "raised"]
    /\ last' = Event(t, "exit", "raised", NoPk)
    /\ scope' = [scope EXCEPT ![t] = NoBatch]
    /\ UNCHANGED <<store, nextId, active, clientVars>>

\* the body raised: the exception passes the commit, the finally clause runs
BatchExitRaise(t) ==
    /\ scope[t] # NoBatch
    /\ batches' = [batches EXCEPT ![scope[t]].exit = "raised"]
    /\ last' = Event(t, "exit", "raised", NoPk)
    /\ active' = SetActive(t, NoBatch)
    /\ scope' = [scope EXCEPT ![t] = NoBatch]
    /\ UNCHANGED <<store, nextId, clientVars>>

(* ------------------------------ Manager ------------------------------- *)
\* Manager._to_document(data) of the manager of the class: the rehydrated
\* Document, bound to the manager (origin and deleteCalled record how the
\* caller got and used the instance)
ToDocument(data, origin) ==
    [id |-> data.id, data |-> data.fields, deleteCalled |-> FALSE, origin |-> origin,
     manager |-> TopManager, received |-> NoManager]

\* create that never looks at the active batch
ManagerCreateUnbatched(t, data) ==
    /\ nextId' = nextId + 1
    /\ store' = DriverSet(store, nextId, data)
    /\ last' = Event(t, "create", "ok", nextId)
    /\ ManagerClient
    /\ UNCHANGED <<active, scope, batches>>

\* Manager.create(data)
ManagerCreate(t, data) ==
    /\ nextId' = nextId + 1
    /\ IF ActiveBatch(t) # NoBatch
       THEN /\ batches' = Stage(ActiveBatch(t), [kind |-> "set", pk |-> nextId, data |-> data, by |-> t])
            /\ store' = store
       ELSE /\ store' = DriverSet(store, nextId, data)
            /\ batches' = batches
    /\ last' = Event(t, "create", "ok", nextId)
    /\ ManagerClient
    /\ UNCHANGED <<active, scope>>

\* Manager.update(pk, data)
ManagerUpdate(t, pk, data) ==
    /\ IF ActiveBatch(t) # NoBatch
       THEN /\ batches' = Stage(ActiveBatch(t), [kind |-> "update", pk |-> pk, data |-> data, by |-> t])
            /\ store' = store
            /\ last' = Event(t, "update", "ok", pk)
       ELSE /\ batches' = batches
            /\ IF Stored(pk)
               THEN /\ store' = DriverUpdate(store, pk, data)
                    /\ last' = Event(t, "update", "ok", pk)
               ELSE /\ store' = store
                    /\ last' = Event(t, "update", "NotFound", pk)
    /\ ManagerClient
    /\ UNCHANGED <<nextId, active, scope>>

\* Manager.delete(pk)
ManagerDelete(t, pk) ==
    /\ IF ActiveBatch(t) # NoBatch
       THEN /\ batches' = Stage(ActiveBatch(t), [kind |-> "delete", pk |-> pk, data |-> <<>>, by |-> t])
            /\ store' = store
       ELSE /\ store' = DriverDelete(store, pk)
            /\ batches' = batches
    /\ last' = Event(t, "delete", "ok", pk)
    /\ ManagerClient
    /\ UNCHANGED <<nextId, active, scope>>

\* the snapshot without the line that puts the document id into the data
SnapshotDataNoId(pk) == [id |-> NoPk, fields |-> store[pk]]

\* doc_snapshot.to_dict() with data["id"] = doc_snapshot.id
SnapshotData(pk) == [id |-> pk, fields |-> store[pk]]

(* ------------------------------- Query -------------------------------- *)
\* Query.LOOKUP_OPERATORS / Manager.LOOKUP_OPERATORS
LOOKUP_OPERATORS ==
    [eq |-> "==", ne |-> "!=", gt |-> ">", gte |-> ">=", lt |-> "<", lte |-> "<=",
     in |-> "in", not_in |-> "not-in", contains |-> "array_contains",
     contains_any |-> "array_contains_any"]

\* a lookup that is taken from the last part of every key
ParseLookupLastPart(kw) ==
    IF kw.key[Len(kw.key)] \in DOMAIN LOOKUP_OPERATORS
    THEN [field_path |-> SubSeq(kw.key, 1, Len(kw.key) - 1),
          op_string |-> LOOKUP_OPERATORS[kw.key[Len(kw.key)]], value |-> kw.value]
    ELSE [field_path |-> kw.key, op_string |-> "==", value |-> kw.value]

\* one keyword of filter(**kwargs); `key` is key.split("__"), the field path
\* is the sequence of the parts that "." joins
ParseLookup(kw) ==
    LET parts == kw.key
    IN IF Len(parts) > 1 /\ parts[Len(parts)] \in DOMAIN LOOKUP_OPERATORS
       THEN [field_path |-> SubSeq(parts, 1, Len(parts) - 1),
             op_string |-> LOOKUP_OPERATORS[parts[Len(parts)]], value |-> kw.value]
       ELSE [field_path |-> parts, op_string |-> "==", value |-> kw.value]

\* the FieldFilter objects of the keywords, in keyword order
FieldFilters(kwargs) == [i \in 1 .. Len(kwargs) |-> ParseLookup(kwargs[i])]

\* the driver's evaluation of one FieldFilter on the data of a document
\* (the documents hold scalar fields: the array operators select nothing)
Matches(data, f) ==
    /\ Len(f.field_path) = 1
    /\ f.field_path[1] \in DOMAIN data
    /\ LET v == data[f.field_path[1]]
       IN CASE f.op_string = "==" -> v = f.value
            [] f.op_string = "!=" -> v # f.value
            [] f.op_string = ">" -> v > f.value
            [] f.op_string = ">=" -> v >= f.value
            [] f.op_string = "<" -> v < f.value
            [] f.op_string = "<=" -> v <= f.value
            [] f.op_string = "in" -> \E j \in 1 .. Len(f.value) : f.value[j] = v
            [] f.op_string = "not-in" -> \A j \in 1 .. Len(f.value) : f.value[j] # v
            [] OTHER -> FALSE

\* query.where(filter=f) for every filter
WherePks(filters) ==
    {pk \in DOMAIN store : \A i \in 1 .. Len(filters) : Matches(store[pk], filters[i])}

\* an order_by entry is the string's leading sign and the rest of it
OrderName(e) == e.name
Descending(e) == e.sign = "-"

RECURSIVE Precedes(_, _, _, _)
\* the driver's order: the order_by fields, then the document id in the
\* direction of the last order_by (ascending without any)
Precedes(a, b, order, desc) ==
    IF order = <<>> THEN (IF desc THEN a > b ELSE a < b)
    ELSE LET e == Head(order)
             va == store[a][OrderName(e)]
             vb == store[b][OrderName(e)]
         IN IF va = vb THEN Precedes(a, b, Tail(order), Descending(e))
            ELSE IF Descending(e) THEN va > vb ELSE va < vb

RECURSIVE Stream(_, _)
\* the documents of S in the driver's order
Stream(S, order) ==
    IF S = {} THEN <<>>
    ELSE LET m == CHOOSE x \in S : \A y \in S \ {x} : Precedes(x, y, order, FALSE)
         IN <<m>> \o Stream(S \ {m}, order)

NoVals == [n \in {} |-> 0]

NoCursor == [kind |-> "none", vals |-> NoVals]

\* bool(cursor): None and the empty mapping are false
Truthy(c) == c.kind \in {"doc", "other"} \/ (c.kind = "dict" /\ DOMAIN c.vals # {})

RECURSIVE CursorSide(_, _, _)
\* position of a document relative to the cursor values on the order_by
\* fields: "before", "at" or "after"
CursorSide(data, vals, order) ==
    IF order = <<>> THEN "at"
    ELSE LET e == Head(order)
             v == data[OrderName(e)]
             c == vals[OrderName(e)]
         IN IF v = c THEN CursorSide(data, vals, Tail(order))
            ELSE IF (IF Descending(e) THEN v > c ELSE v < c) THEN "before" ELSE "after"

\* Query._build_query and the stream: filters, ordering, cursors, limit
RunQuery(q, ls) ==
    LET order == ls[q.order]
        sorted == Stream(WherePks(ls[q.where]), order)
        cursor == IF Truthy(q.start_at) THEN q.start_at ELSE q.start_after
        Keep(pk) ==
            LET side == CursorSide(store[pk], cursor.vals, order)
            IN IF Truthy(q.start_at) THEN side # "before" ELSE side = "after"
        positioned == IF Truthy(cursor) THEN SelectSeq(sorted, Keep) ELSE sorted
        cut == IF q.limit # NoLimit /\ q.limit # 0 /\ Len(positioned) > q.limit
               THEN SubSeq(positioned, 1, q.limit) ELSE positioned
    IN IF order = <<>> /\ (Truthy(q.start_after) \/ Truthy(q.start_at))
       THEN [outcome |-> "ValueError", pks |-> <<>>]
       ELSE IF \/ (Truthy(q.start_after) /\ q.start_after.kind = "other")
               \/ (Truthy(q.start_at) /\ q.start_at.kind = "other")
       THEN [outcome |-> "InvalidCursor", pks |-> <<>>]
       ELSE IF Truthy(cursor) /\ \E i \in 1 .. Len(order) : OrderName(order[i]) \notin DOMAIN cursor.vals
       THEN [outcome |-> "ValueError", pks |-> <<>>]
       ELSE [outcome |-> "ok", pks |-> cut]

\* Query(manager): no filters, no order, no limit, no cursors
NewQuery(ls) ==
    [q |-> [where |-> Len(ls) + 1, order |-> Len(ls) + 2, limit |-> NoLimit,
            start_after |-> NoCursor, start_at |-> NoCursor],
     lists |-> ls \o <<<<>>, <<>>>>]

\* a clone that keeps the receiver's list objects
CloneShared(r) == [q |-> queries[r], lists |-> lists]

\* Query._clone(): a new Query with copies of both lists
Clone(r) ==
    [q |-> [queries[r] EXCEPT !.where = Len(lists) + 1, !.order = Len(lists) + 2],
     lists |-> lists \o <<lists[queries[r].where], lists[queries[r].order]>>]

\* Query.filter(**kwargs)
QueryFilter(r, kwargs) ==
    LET c == Clone(r)
    IN /\ queries' = Append(queries, c.q)
       /\ lists' = [c.lists EXCEPT ![c.q.where] = @ \o FieldFilters(kwargs)]

\* Query.order_by(*fields)
QueryOrderBy(r, fields) ==
    LET c == Clone(r)
    IN /\ queries' = Append(queries, c.q)
       /\ lists' = [c.lists EXCEPT ![c.q.order] = @ \o fields]

\* a limit that starts from a new Query instead of a clone of the receiver
QueryLimitFresh(r, count) ==
    /\ queries' = Append(queries, [NewQuery(lists).q EXCEPT !.limit = count])
    /\ lists' = NewQuery(lists).lists

\* Query.limit(count)
QueryLimit(r, count) ==
    LET c == Clone(r)
    IN /\ queries' = Append(queries, [c.q EXCEPT !.limit = count])
       /\ lists' = c.lists

\* Query.start_after(cursor)
QueryStartAfter(r, cursor) ==
    LET c == Clone(r)
    IN /\ queries' = Append(queries, [c.q EXCEPT !.start_after = cursor])
       /\ lists' = c.lists

\* Query.start_at(cursor)
QueryStartAt(r, cursor) ==
    LET c == Clone(r)
    IN /\ queries' = Append(queries, [c.q EXCEPT !.start_at = cursor])
       /\ lists' = c.lists

\* the outcome of get() for the result list of the lookup
GetOutcome(res) ==
    IF res.outcome # "ok" THEN res.outcome
    ELSE IF Len(res.pks) = 0 THEN "DoesNotExist"
    ELSE IF Len(res.pks) > 1 THEN "MultipleObjectsFound"
    ELSE "ok"

GetResultPk(res) == IF GetOutcome(res) = "ok" THEN res.pks[1] ELSE NoPk

\* the lookup query of Query.get() with a limit of one
GetQueryLimitOne(r) ==
    LET c == Clone(r) IN RunQuery([c.q EXCEPT !.limit = 1], c.lists)

\* query_for_get = self.limit(2) and its results
GetQuery(r) ==
    LET c == Clone(r) IN RunQuery([c.q EXCEPT !.limit = 2], c.lists)

\* Query.get(); the clone made for the lookup is dropped afterwards
QueryGet(t, r) ==
    /\ last' = DocEvent(t, "query.get", GetOutcome(GetQuery(r)), GetResultPk(GetQuery(r)), r)
    /\ ManagerClient
    /\ UNCHANGED <<store, nextId, active, scope, batches, queries, lists>>

\* BaseModel.model_dump() of a Document: the pk under "id" and the fields
ModelDump(d) == [k \in DOMAIN d.data \cup {"id"} |-> IF k = "id" THEN d.id ELSE d.data[k]]

\* a Document given as a cursor; _dump_cursor hands its model_dump() on
DocCursor(d) == [kind |-> "doc", vals |-> ModelDump(d)]

\* [obj async for obj in query]: Query.__aiter__ run to its end
QueryIterate(t, r) ==
    /\ last' = [DocEvent(t, "iterate", RunQuery(queries[r], lists).outcome, NoPk, r)
                    EXCEPT !.args = RunQuery(queries[r], lists).pks]
    /\ ManagerClient
    /\ UNCHANGED <<store, nextId, active, scope, batches, queries, lists>>

\* Manager.filter(**kwargs) of Manager.get: every keyword a where clause
ManagerFilter(kwargs) ==
    [outcome |-> "ok", pks |-> Stream(WherePks(FieldFilters(kwargs)), <<>>)]

\* Manager.get(pk, **kwargs): by key when pk is given, else the single match
ManagerGet(t, pk, kwargs) ==
    /\ last' =
         IF pk # NoPk /\ kwargs # <<>> THEN Event(t, "get", "ValueError", pk)
         ELSE IF pk # NoPk
         THEN Event(t, "get", IF Stored(pk) THEN "ok" ELSE "DoesNotExist", pk)
         ELSE [Event(t, "get.filter", GetOutcome(ManagerFilter(kwargs)),
                     GetResultPk(ManagerFilter(kwargs))) EXCEPT !.args = kwargs]
    /\ IF pk # NoPk /\ kwargs # <<>> THEN UNCHANGED clientVars ELSE ManagerClient
    /\ UNCHANGED <<store, nextId, active, scope, batches>>

\* Manager.get(pk=pk)
ManagerGetPk(t, pk) == ManagerGet(t, pk, <<>>)

(* ------------------------------ Paginator ----------------------------- *)
\* the page log and the page number of a generator stop growing here; a
\* generator that ends does so within MaxStored pages
PageCap == MaxStored + 1

\* Paginator(query, per_page); `runs` counts the count aggregations run
NewPaginator(r, per_page) == [query |-> r, per_page |-> per_page, count |-> NoCount, runs |-> 0]

\* a generator that takes up the cursor and page number the paginator's
\* previous generator stopped at
PaginatorIterOneShot(p) ==
    LET prev == {g \in 1 .. Len(iters) : iters[g].pager = p}
        g0 == CHOOSE g \in prev : \A h \in prev : h <= g
    IN iters' = Append(iters,
           [pager |-> p,
            cursor |-> IF prev = {} THEN NoCursor ELSE iters[g0].cursor,
            page_num |-> IF prev = {} THEN 1 ELSE iters[g0].page_num,
            pc |-> "running", error |-> "none", pages |-> <<>>])

\* Paginator.__aiter__ called: a new async generator, cursor = None and
\* page_num = 1 are its locals
PaginatorIter(p) ==
    iters' = Append(iters, [pager |-> p, cursor |-> NoCursor, page_num |-> 1,
                            pc |-> "running", error |-> "none", pages |-> <<>>])

\* page_query of the generator: self._query.limit(per_page), and
\* .start_after(cursor) once a page was fetched
PageQuery(it) ==
    LET c == Clone(pagers[it.pager].query)
        limited == [c.q EXCEPT !.limit = pagers[it.pager].per_page]
    IN [q |-> IF Truthy(it.cursor) THEN [limited EXCEPT !.start_after = it.cursor] ELSE limited,
        lists |-> c.lists]

\* one round of the loop of the generator g: fetch the page, stop on an
\* empty one, else yield it and stop after a short one
PaginatorStep(g) ==
    \E it \in {iters[g]} : \E pq \in {PageQuery(it)} : \E res \in {RunQuery(pq.q, pq.lists)} :
        /\ ManagerClient
        /\ iters' =
             IF res.outcome # "ok"
             THEN [iters EXCEPT ![g].pc = "raised", ![g].error = res.outcome]
             ELSE IF res.pks = <<>>
             THEN [iters EXCEPT ![g].pc = "done"]
             ELSE [iters EXCEPT
                     ![g].cursor = DocCursor(ToDocument(SnapshotData(res.pks[Len(res.pks)]), "read")),
                     ![g].pages = IF Len(@) < PageCap
                                  THEN Append(@, [number |-> it.page_num, object_list |-> res.pks])
                                  ELSE @,
                     ![g].page_num = IF @ < PageCap THEN @ + 1 ELSE @,
                     ![g].pc = IF Len(res.pks) < pagers[it.pager].per_page THEN "done" ELSE "running"]

\* the attributes a Query has
QueryAttributes == {"filter", "order_by", "limit", "start_after", "start_at", "get"}

\* the count aggregation over the filters of the query
CountAggregation(r) == Cardinality(WherePks(lists[queries[r].where]))

\* Paginator.count(): the memo, else self._query.count(); the lookup of an
\* attribute the Query does not have raises AttributeError
CountResult(p) ==
    IF pagers[p].count # NoCount
    THEN [outcome |-> "ok", value |-> pagers[p].count, pager |-> pagers[p]]
    ELSE IF "count" \in QueryAttributes
    THEN [outcome |-> "ok", value |-> CountAggregation(pagers[p].query),
          pager |-> [pagers[p] EXCEPT !.count = CountAggregation(pagers[p].query), !.runs = @ + 1]]
    ELSE [outcome |-> "AttributeError", value |-> NoCount, pager |-> pagers[p]]

PaginatorCount(t, p) ==
    /\ last' = [DocEvent(t, "count", CountResult(p).outcome, NoPk, p)
                    EXCEPT !.args = <<CountResult(p).value>>]
    /\ pagers' = [pagers EXCEPT ![p] = CountResult(p).pager]

\* math.ceil(count / per_page)
CeilDiv(a, b) == (a + b - 1) \div b

\* Paginator.num_pages
PaginatorNumPages(t, p) ==
    IF pagers[p].per_page = 0
    THEN /\ last' = [DocEvent(t, "num_pages", "ok", NoPk, p) EXCEPT !.args = <<0>>]
         /\ pagers' = pagers
    ELSE /\ last' = [DocEvent(t, "num_pages", CountResult(p).outcome, NoPk, p)
                         EXCEPT !.args = <<IF CountResult(p).outcome = "ok"
                                           THEN CeilDiv(CountResult(p).value, pagers[p].per_page)
                                           ELSE NoCount>>]
         /\ pagers' = [pagers EXCEPT ![p] = CountResult(p).pager]

(* ------------------------------ Document ------------------------------ *)
\* Document(**data): id is the pk the caller supplied, or None
NewDocument(pk, data) ==
    [id |-> pk, data |-> data, deleteCalled |-> FALSE, origin |-> "constructor",
     manager |-> TopManager, received |-> NoManager]

\* parameters of Manager.create besides self
CreateParams == {"data"}

\* keywords Document.save passes to Manager.create
SaveKeywords == {"data", "pk"}

\* Document.save(): the call of Manager.create binds its keywords first; an
\* unexpected keyword raises TypeError before anything is executed
DocumentSave(t, i) ==
    IF SaveKeywords \subseteq CreateParams
    THEN /\ ManagerCreate(t, docs[i].data)
         /\ docs' = [docs EXCEPT ![i].id = nextId]
    ELSE /\ last' = DocEvent(t, "save", "TypeError", docs[i].id, i)
         /\ UNCHANGED <<store, nextId, active, scope, batches, docs, clientVars>>

\* an update that also sets the given fields on the instance
DocumentUpdateLocal(t, i, kwargs) ==
    IF docs[i].id = NoPk
    THEN /\ last' = DocEvent(t, "update", "ValueError", NoPk, i)
         /\ UNCHANGED <<store, nextId, active, scope, batches, docs, clientVars>>
    ELSE /\ ManagerUpdate(t, docs[i].id, kwargs)
         /\ docs' = [docs EXCEPT ![i].data = MergeData(@, kwargs)]

\* Document.update(**kwargs): the local fields stay as they are
DocumentUpdate(t, i, kwargs) ==
    IF docs[i].id = NoPk
    THEN /\ last' = DocEvent(t, "update", "ValueError", NoPk, i)
         /\ UNCHANGED <<store, nextId, active, scope, batches, docs, clientVars>>
    ELSE /\ ManagerUpdate(t, docs[i].id, kwargs)
         /\ docs' = docs

\* Document.refresh(): every attribute of the fetched document is set on self
DocumentRefresh(t, i) ==
    /\ IF docs[i].id = NoPk
       THEN /\ last' = DocEvent(t, "refresh", "ValueError", NoPk, i)
            /\ docs' = docs
       ELSE IF ~Stored(docs[i].id)
       THEN /\ last' = DocEvent(t, "refresh", "DoesNotExist", docs[i].id, i)
            /\ docs' = docs
       ELSE /\ last' = DocEvent(t, "refresh", "ok", docs[i].id, i)
            /\ docs' = [docs EXCEPT ![i].id = SnapshotData(docs[i].id).id,
                                    ![i].data = SnapshotData(docs[i].id).fields]
    /\ IF docs[i].id = NoPk THEN UNCHANGED clientVars ELSE ManagerClient
    /\ UNCHANGED <<store, nextId, active, scope, batches>>

\* Document.delete(): the local pk stays set
DocumentDelete(t, i) ==
    IF docs[i].id = NoPk
    THEN /\ last' = DocEvent(t, "delete", "ValueError", NoPk, i)
         /\ UNCHANGED <<store, nextId, active, scope, batches, docs, clientVars>>
    ELSE /\ ManagerDelete(t, docs[i].id)
         /\ docs' = [docs EXCEPT ![i].deleteCalled = TRUE]

(* ---------------------------- Subcollection --------------------------- *)
\* Meta.collection_name of the two Document classes
CollectionName(k) == IF k = "Product" THEN "products" ELSE "reviews"

\* Product.reviews = Subcollection(Review)
NestedKlass == "Review"

\* the names an instance of a Document class resolves
DocumentAttributes ==
    {"id", "name", "price", "reviews", "documents", "_meta", "_manager", "pk", "manager",
     "save", "update", "refresh", "delete"}

\* the live instance at an address
Instance(a) == docs[heap[a]]

\* Manager.collection of a Manager object: the collection of the class, or
\* the collection below the document of the parent
ManagerCollection(m) ==
    IF m.parent = NoParent
    THEN [outcome |-> "ok", path |-> <<CollectionName(m.doc_klass)>>]
    ELSE IF Instance(m.parent).id = NoPk
    THEN [outcome |-> "ValueError", path |-> <<>>]
    ELSE IF "objects" \notin DocumentAttributes
    THEN [outcome |-> "AttributeError", path |-> <<>>]
    ELSE [outcome |-> "ok",
          path |-> <<CollectionName("Product"), Instance(m.parent).id, CollectionName(m.doc_klass)>>]

\* the Manager in the cache holds its parent: the instance stays reachable
Referenced(a) == \E m \in 1 .. Len(managers) : managers[m].parent = a

\* a descriptor that keeps one Manager for all the instances
SubcollectionGetShared(t, a) ==
    /\ managers' = IF managers = <<>>
                   THEN <<[doc_klass |-> NestedKlass, parent |-> a]>> ELSE managers
    /\ cache' = cache @@ (a :> 1)
    /\ last' = [DocEvent(t, "reviews", "ok", NoPk, heap[a]) EXCEPT !.args = <<1>>]
    /\ docs' = [docs EXCEPT ![heap[a]].received = 1]
    /\ UNCHANGED <<store, nextId, active, scope, batches, heap, substore, clientVars>>

\* Subcollection.__get__(instance, owner) for the instance at address a
\* (`received` records on the instance which Manager it was given)
SubcollectionGet(t, a) ==
    /\ IF a \notin DOMAIN cache
       THEN /\ managers' = Append(managers, [doc_klass |-> NestedKlass, parent |-> a])
            /\ cache' = cache @@ (a :> Len(managers) + 1)
       ELSE /\ managers' = managers
            /\ cache' = cache
    /\ last' = [DocEvent(t, "reviews", "ok", NoPk, heap[a]) EXCEPT !.args = <<cache'[a]>>]
    /\ docs' = [docs EXCEPT ![heap[a]].received = cache'[a]]
    /\ UNCHANGED <<store, nextId, active, scope, batches, heap, substore, clientVars>>

\* Subcollection.__get__(None, owner): the attribute is read on the class
SubcollectionGetOnClass(t) ==
    /\ last' = Event(t, "reviews", "descriptor", NoPk)
    /\ UNCHANGED <<store, nextId, active, scope, batches, docs, subVars, clientVars>>

\* the key of a document of the subcollection of managers[m]
SubKey(m, pk) == <<Instance(managers[m].parent).id, pk>>

\* the outcome of a call on managers[m] that did not get to its collection
SubRaises(t, m, op, pk) ==
    /\ last' = [Event(t, op, ManagerCollection(managers[m]).outcome, pk) EXCEPT !.inst = m]
    /\ UNCHANGED <<store, nextId, active, scope, batches, docs, subVars, clientVars>>

\* the outcome of a call on managers[m] that addressed its collection
SubEvent(t, m, op, outcome, pk) ==
    [Event(t, op, outcome, pk) EXCEPT !.inst = m, !.args = ManagerCollection(managers[m]).path]

\* Manager.create(data) of the subcollection manager managers[m]
SubManagerCreate(t, m, data) ==
    IF ManagerCollection(managers[m]).outcome # "ok"
    THEN SubRaises(t, m, "sub.create", NoPk)
    ELSE /\ nextId' = nextId + 1
         /\ docs' = Append(docs, [ToDocument([id |-> nextId, fields |-> data], "created")
                                      EXCEPT !.manager = m])
         /\ IF ActiveBatch(t) # NoBatch
            THEN /\ batches' = Stage(ActiveBatch(t), [kind |-> "set", pk |-> SubKey(m, nextId),
                                                      data |-> data, by |-> t])
                 /\ substore' = substore
            ELSE /\ substore' = DriverSet(substore, SubKey(m, nextId), data)
                 /\ batches' = batches
         /\ last' = SubEvent(t, m, "sub.create", "ok", nextId)
         /\ ManagerClient
         /\ UNCHANGED <<store, active, scope, heap, managers, cache>>

\* Manager.get(pk=pk) of managers[m]
SubManagerGet(t, m, pk) ==
    IF ManagerCollection(managers[m]).outcome # "ok"
    THEN SubRaises(t, m, "sub.get", pk)
    ELSE /\ last' = SubEvent(t, m, "sub.get",
                             IF SubKey(m, pk) \in DOMAIN substore THEN "ok" ELSE "DoesNotExist", pk)
         /\ docs' = IF SubKey(m, pk) \in DOMAIN substore
                    THEN Append(docs, [ToDocument([id |-> pk, fields |-> substore[SubKey(m, pk)]], "read")
                                           EXCEPT !.manager = m])
                    ELSE docs
         /\ ManagerClient
         /\ UNCHANGED <<store, nextId, active, scope, batches, subVars>>

\* the iteration of Manager.filter(**kwargs) of managers[m]: the event holds
\* the path and the set of the pks it yields
SubManagerFilter(t, m, kwargs) ==
    IF ManagerCollection(managers[m]).outcome # "ok"
    THEN SubRaises(t, m, "sub.filter", NoPk)
    ELSE /\ last' = [SubEvent(t, m, "sub.filter", "ok", NoPk) EXCEPT !.args = @ \o
                        <<{k[2] : k \in {k \in DOMAIN substore :
                              /\ k[1] = Instance(managers[m].parent).id
                              /\ \A i \in 1 .. Len(kwargs) :
                                    Matches(substore[k], ParseLookup(kwargs[i]))}}>>]
         /\ ManagerClient
         /\ UNCHANGED <<store, nextId, active, scope, batches, docs, subVars>>

\* Manager.update(pk, data) of managers[m]
SubManagerUpdate(t, m, pk, data) ==
    IF ManagerCollection(managers[m]).outcome # "ok"
    THEN SubRaises(t, m, "sub.update", pk)
    ELSE /\ IF ActiveBatch(t) # NoBatch
            THEN /\ batches' = Stage(ActiveBatch(t), [kind |-> "update", pk |-> SubKey(m, pk),
                                                      data |-> data, by |-> t])
                 /\ substore' = substore
                 /\ last' = SubEvent(t, m, "sub.update", "ok", pk)
            ELSE /\ batches' = batches
                 /\ IF SubKey(m, pk) \in DOMAIN substore
                    THEN /\ substore' = DriverUpdate(substore, SubKey(m, pk), data)
                         /\ last' = SubEvent(t, m, "sub.update", "ok", pk)
                    ELSE /\ substore' = substore
                         /\ last' = SubEvent(t, m, "sub.update", "NotFound", pk)
         /\ ManagerClient
         /\ UNCHANGED <<store, nextId, active, scope, docs, heap, managers, cache>>

\* Manager.delete(pk) of managers[m]
SubManagerDelete(t, m, pk) ==
    IF ManagerCollection(managers[m]).outcome # "ok"
    THEN SubRaises(t, m, "sub.delete", pk)
    ELSE /\ IF ActiveBatch(t) # NoBatch
            THEN /\ batches' = Stage(ActiveBatch(t), [kind |-> "delete", pk |-> SubKey(m, pk),
                                                      data |-> <<>>, by |-> t])
                 /\ substore' = substore
            ELSE /\ substore' = DriverDelete(substore, SubKey(m, pk))
                 /\ batches' = batches
         /\ last' = SubEvent(t, m, "sub.delete", "ok", pk)
         /\ ManagerClient
         /\ UNCHANGED <<store, nextId, active, scope, docs, heap, managers, cache>>

(* --------------------------- specification ---------------------------- *)
\* no Manager has read its client property
InitClient ==
    /\ client = NoClient
    /\ clients = <<>>

\* no instance is allocated and no Subcollection attribute was read
InitSub ==
    /\ heap = [a \in 1 .. MaxAddr |-> 0]
    /\ managers = <<>>
    /\ cache = <<>>
    /\ substore = <<>>

\* the model stops enqueueing after MaxOps writes in all
CanStage(t) == ActiveBatch(t) # NoBatch => StagedCount(Len(batches)) < MaxOps

\* updates, deletes and reads address the first document once its pk is known
TargetPks == {pk \in {1} : pk < nextId}

Init ==
    /\ store = <<>>
    /\ nextId = 1
    /\ active = [t \in Tasks |-> NoBatch]
    /\ scope = [t \in Tasks |-> NoBatch]
    /\ batches = <<>>
    /\ last = NoEvent
    /\ docs = <<>>
    /\ queries = <<>>
    /\ lists = <<>>
    /\ pagers = <<>>
    /\ iters = <<>>
    /\ InitSub
    /\ InitClient

Enter ==
    \E t \in Tasks :
        /\ Len(batches) < MaxBatches
        /\ BatchEnter(t)
        /\ UNCHANGED <<docVars, queryVars, pageVars, subVars>>
ExitNormal == \E t \in Tasks : BatchExitNormal(t) /\ UNCHANGED <<docVars, queryVars, pageVars, subVars>>
ExitRaise == \E t \in Tasks : BatchExitRaise(t) /\ UNCHANGED <<docVars, queryVars, pageVars, subVars>>
Create ==
    \E t \in Tasks, d \in CreateInputs :
        /\ nextId <= MaxId
        /\ CanStage(t)
        /\ ManagerCreate(t, d)
        /\ UNCHANGED <<docVars, queryVars, pageVars, subVars>>
Update ==
    \E t \in Tasks, pk \in TargetPks, d \in UpdateInputs :
        /\ CanStage(t)
        /\ ManagerUpdate(t, pk, d)
        /\ UNCHANGED <<docVars, queryVars, pageVars, subVars>>
Delete ==
    \E t \in Tasks, pk \in TargetPks :
        /\ CanStage(t)
        /\ ManagerDelete(t, pk)
        /\ UNCHANGED <<docVars, queryVars, pageVars, subVars>>
GetPk ==
    \E t \in Tasks, pk \in TargetPks :
        ManagerGetPk(t, pk) /\ UNCHANGED <<docVars, queryVars, pageVars, subVars>>

Next == Enter \/ ExitNormal \/ ExitRaise \/ Create \/ Update \/ Delete \/ GetPk

Spec == Init /\ [][Next]_vars

(* ------------------- specification: one task's documents -------------- *)
\* a pk the caller chooses; the driver's generated ids never collide with it
CustomPk == MaxId + 1

DocIds == 1 .. Len(docs)

\* the task runs one batch() scope
DocEnter ==
    /\ batches = <<>>
    /\ BatchEnter(DocTask)
    /\ UNCHANGED <<docVars, queryVars, pageVars, subVars>>
DocExitNormal == BatchExitNormal(DocTask) /\ UNCHANGED <<docVars, queryVars, pageVars, subVars>>
DocExitRaise == BatchExitRaise(DocTask) /\ UNCHANGED <<docVars, queryVars, pageVars, subVars>>

\* d = Product(...) or Product(id=..., ...)
Construct ==
    \E pk \in {NoPk, CustomPk}, d \in CreateInputs :
        /\ Len(docs) < MaxDocs
        /\ docs' = Append(docs, NewDocument(pk, d))
        /\ last' = DocEvent(DocTask, "construct", "ok", pk, Len(docs) + 1)
        /\ UNCHANGED <<store, nextId, active, scope, batches, queryVars, pageVars, subVars,
                       clientVars>>

\* d = await Product.documents.create(data)
CreateDocument ==
    \E d \in CreateInputs :
        /\ Len(docs) < MaxDocs
        /\ nextId <= MaxId
        /\ CanStage(DocTask)
        /\ ManagerCreate(DocTask, d)
        /\ docs' = Append(docs, ToDocument([id |-> nextId, fields |-> d],
                                           IF ActiveBatch(DocTask) # NoBatch THEN "staged" ELSE "created"))
        /\ UNCHANGED <<queryVars, pageVars, subVars>>

\* d = await Product.documents.get(pk=pk)
FetchDocument ==
    \E pk \in TargetPks \cup {CustomPk} :
        /\ Len(docs) < MaxDocs
        /\ ManagerGetPk(DocTask, pk)
        /\ docs' = IF Stored(pk) THEN Append(docs, ToDocument(SnapshotData(pk), "read")) ELSE docs
        /\ UNCHANGED <<queryVars, pageVars, subVars>>

Save == \E i \in DocIds : DocumentSave(DocTask, i) /\ UNCHANGED <<queryVars, pageVars, subVars>>
UpdateDocument ==
    \E i \in DocIds, d \in UpdateInputs :
        /\ CanStage(DocTask)
        /\ DocumentUpdate(DocTask, i, d)
        /\ UNCHANGED <<queryVars, pageVars, subVars>>
Refresh == \E i \in DocIds : DocumentRefresh(DocTask, i) /\ UNCHANGED <<queryVars, pageVars, subVars>>
DeleteDocument ==
    \E i \in DocIds :
        /\ CanStage(DocTask)
        /\ DocumentDelete(DocTask, i)
        /\ UNCHANGED <<queryVars, pageVars, subVars>>

NextDoc ==
    \/ DocEnter \/ DocExitNormal \/ DocExitRaise
    \/ Construct \/ CreateDocument \/ FetchDocument
    \/ Save \/ UpdateDocument \/ Refresh \/ DeleteDocument

SpecDoc == Init /\ [][NextDoc]_vars

(* ------------------- specification: queries on a collection ----------- *)
StoredDocs == <<[name |-> 1, price |-> 1], [name |-> 1, price |-> 2]>>

\* the collections the queries run on: no document, one or two
InitStores == {SubSeq(StoredDocs, 1, n) : n \in 0 .. Len(StoredDocs)}

KwargsInputs ==
    {<<[key |-> <<"price">>, value |-> 1]>>,
     <<[key |-> <<"price", "gt">>, value |-> 1]>>,
     <<[key |-> <<"name">>, value |-> 1]>>}

OrderInputs == {<<[sign |-> "", name |-> "price"]>>, <<[sign |-> "-", name |-> "price"]>>}

LimitInputs == {1}

CursorInputs == {[kind |-> "dict", vals |-> [price |-> 1]], [kind |-> "other", vals |-> NoVals]}

QueryRefs == 1 .. Len(queries)

InitQuery ==
    /\ store \in InitStores
    /\ nextId = Len(store) + 1
    /\ active = [t \in Tasks |-> NoBatch]
    /\ scope = [t \in Tasks |-> NoBatch]
    /\ batches = <<>>
    /\ last = NoEvent
    /\ docs = <<>>
    /\ queries = <<>>
    /\ lists = <<>>
    /\ pagers = <<>>
    /\ iters = <<>>
    /\ InitSub
    /\ InitClient

QueryUnchanged ==
    UNCHANGED <<store, nextId, active, scope, batches, last, docs, pageVars, subVars, clientVars>>

Construct_Query ==
    /\ queries = <<>>
    /\ queries' = Append(queries, NewQuery(lists).q)
    /\ lists' = NewQuery(lists).lists
    /\ QueryUnchanged

Filter ==
    \E r \in QueryRefs, kwargs \in KwargsInputs :
        Len(queries) < MaxQueries /\ QueryFilter(r, kwargs) /\ QueryUnchanged

OrderBy ==
    \E r \in QueryRefs, fields \in OrderInputs :
        Len(queries) < MaxQueries /\ QueryOrderBy(r, fields) /\ QueryUnchanged

Limit ==
    \E r \in QueryRefs, count \in LimitInputs :
        Len(queries) < MaxQueries /\ QueryLimit(r, count) /\ QueryUnchanged

StartAfter ==
    \E r \in QueryRefs, cursor \in CursorInputs :
        Len(queries) < MaxQueries /\ QueryStartAfter(r, cursor) /\ QueryUnchanged

StartAt ==
    \E r \in QueryRefs, cursor \in {c \in CursorInputs : c.kind = "dict"} :
        Len(queries) < MaxQueries /\ QueryStartAt(r, cursor) /\ QueryUnchanged

Get ==
    \E r \in QueryRefs : QueryGet(DocTask, r) /\ UNCHANGED <<docs, pageVars, subVars>>

GetByFilters ==
    \E kwargs \in KwargsInputs \cup {<<>>} :
        ManagerGet(DocTask, NoPk, kwargs) /\ UNCHANGED <<docs, queries, lists, pageVars, subVars>>

GetByPk ==
    \E pk \in 1 .. Len(StoredDocs), kwargs \in KwargsInputs \cup {<<>>} :
        ManagerGet(DocTask, pk, kwargs) /\ UNCHANGED <<docs, queries, lists, pageVars, subVars>>

NextQuery ==
    \/ Construct_Query \/ Filter \/ OrderBy \/ Limit \/ StartAfter \/ StartAt
    \/ Get \/ GetByFilters \/ GetByPk

SpecQuery == InitQuery /\ [][NextQuery]_vars

(* ------------------- specification: a chain of calls ------------------ *)
\* keywords of filter(): plain, with a lookup, nested, nested with a lookup,
\* a field named like a lookup, an unknown suffix, two keywords
ChainKwargs ==
    {<<[key |-> <<"price">>, value |-> 1]>>,
     <<[key |-> <<"price", "gt">>, value |-> 1]>>,
     <<[key |-> <<"address", "city">>, value |-> 1]>>,
     <<[key |-> <<"address", "city", "ne">>, value |-> 1]>>,
     <<[key |-> <<"contains">>, value |-> 1]>>,
     <<[key |-> <<"price", "between">>, value |-> 1]>>,
     <<[key |-> <<"name">>, value |-> 1], [key |-> <<"price", "lte">>, value |-> 2]>>}

ChainOrders == OrderInputs \cup {<<[sign |-> "", name |-> "name"], [sign |-> "-", name |-> "price"]>>}

ChainLimits == 1 .. MaxLimit

\* one call of the chain, as the caller wrote it
Call(kind, kwargs, fields, count) ==
    [kind |-> kind, kwargs |-> kwargs, fields |-> fields, count |-> count]

\* the base query the chain starts from; the event holds the query the
\* chain has reached and the calls made so far
InitChain ==
    /\ store = <<>>
    /\ nextId = 1
    /\ active = [t \in Tasks |-> NoBatch]
    /\ scope = [t \in Tasks |-> NoBatch]
    /\ batches = <<>>
    /\ last = DocEvent(DocTask, "chain", "ok", NoPk, 1)
    /\ docs = <<>>
    /\ \E w \in {<<>>, FieldFilters(<<[key |-> <<"name">>, value |-> 2]>>)},
          o \in {<<>>, <<[sign |-> "", name |-> "name"]>>}, n \in {NoLimit, MaxLimit} :
            /\ queries = <<[NewQuery(<<>>).q EXCEPT !.limit = n]>>
            /\ lists = <<w, o>>
    /\ pagers = <<>>
    /\ iters = <<>>
    /\ InitSub
    /\ InitClient

\* the chain goes on from the query the call returned
ChainStep(call) ==
    /\ Len(last.args) < MaxCalls
    /\ last' = [last EXCEPT !.inst = Len(queries) + 1, !.args = Append(@, call)]
    /\ UNCHANGED <<store, nextId, active, scope, batches, docs, pageVars, subVars, clientVars>>

ChainFilter ==
    \E kwargs \in ChainKwargs :
        /\ QueryFilter(last.inst, kwargs)
        /\ ChainStep(Call("filter", kwargs, <<>>, NoLimit))

ChainOrderBy ==
    \E fields \in ChainOrders :
        /\ QueryOrderBy(last.inst, fields)
        /\ ChainStep(Call("order_by", <<>>, fields, NoLimit))

ChainLimit ==
    \E count \in ChainLimits :
        /\ QueryLimit(last.inst, count)
        /\ ChainStep(Call("limit", <<>>, <<>>, count))

NextChain == ChainFilter \/ ChainOrderBy \/ ChainLimit

SpecChain == InitChain /\ [][NextChain]_vars

(* ------------------- specification: iterating a query ----------------- *)
PriceData == {[name |-> 1, price |-> v] : v \in FieldValues}

\* the collections a query is iterated on
IterStores == UNION {[1 .. n -> PriceData] : n \in 0 .. MaxStored}

\* the cursors a caller passes: a mapping, the empty mapping, a value that is
\* no mapping and no model (a non-empty string; the number 0), a Document
IterCursors(st) ==
    {[kind |-> "dict", vals |-> [price |-> 1]], [kind |-> "dict", vals |-> NoVals],
     [kind |-> "other", vals |-> NoVals], [kind |-> "zero", vals |-> NoVals]}
    \cup {DocCursor(ToDocument([id |-> pk, fields |-> st[pk]], "read")) : pk \in DOMAIN st}

IterWheres == {<<>>, FieldFilters(<<[key |-> <<"price", "gt">>, value |-> 1]>>)}

\* the query built by Query(manager) and the chain calls on it; its filter
\* and order lists are the list objects 1 and 2
IterQuery(n, sa, st) ==
    [NewQuery(<<>>).q EXCEPT !.limit = n, !.start_after = sa, !.start_at = st]

InitIter ==
    /\ store \in IterStores
    /\ nextId = Len(store) + 1
    /\ active = [t \in Tasks |-> NoBatch]
    /\ scope = [t \in Tasks |-> NoBatch]
    /\ batches = <<>>
    /\ last = NoEvent
    /\ docs = <<>>
    /\ \E w \in IterWheres, o \in OrderInputs \cup {<<>>}, n \in (0 .. MaxLimit) \cup {NoLimit},
          sa \in IterCursors(store) \cup {NoCursor}, st \in IterCursors(store) \cup {NoCursor} :
            /\ queries = <<IterQuery(n, sa, st)>>
            /\ lists = <<w, o>>
    /\ pagers = <<>>
    /\ iters = <<>>
    /\ InitSub
    /\ InitClient

Iterate ==
    \E r \in QueryRefs : QueryIterate(DocTask, r) /\ UNCHANGED <<docs, pageVars, subVars>>

NextIter == Iterate

SpecIter == InitIter /\ [][NextIter]_vars

(* ------------------- specification: paginating a query ---------------- *)
PageCursors == {NoCursor, [kind |-> "dict", vals |-> [price |-> 1]]}

PerPageInputs == 1 .. MaxPerPage

\* a collection and the query the paginator wraps
InitPage ==
    /\ store \in IterStores
    /\ nextId = Len(store) + 1
    /\ active = [t \in Tasks |-> NoBatch]
    /\ scope = [t \in Tasks |-> NoBatch]
    /\ batches = <<>>
    /\ last = NoEvent
    /\ docs = <<>>
    /\ \E o \in OrderInputs \cup {<<>>}, n \in {NoLimit, 1}, sa \in PageCursors, st \in PageCursors :
            /\ queries = <<IterQuery(n, sa, st)>>
            /\ lists = <<<<>>, o>>
    /\ pagers = <<>>
    /\ iters = <<>>
    /\ InitSub
    /\ InitClient

PageUnchanged == UNCHANGED <<store, nextId, active, scope, batches, docs, queries, lists, subVars>>

\* paginator = Paginator(query, per_page)
Paginate ==
    \E per_page \in PerPageInputs :
        /\ pagers = <<>>
        /\ pagers' = Append(pagers, NewPaginator(1, per_page))
        /\ UNCHANGED <<last, iters, clientVars>>
        /\ PageUnchanged

\* async for page in paginator: the caller iterates the paginator again
\* when the iteration before has ended
BeginIteration ==
    \E p \in 1 .. Len(pagers) :
        /\ Len(iters) < MaxIters
        /\ \A g \in 1 .. Len(iters) : iters[g].pc # "running"
        /\ PaginatorIter(p)
        /\ UNCHANGED <<last, pagers, clientVars>>
        /\ PageUnchanged

FetchPage ==
    \E g \in 1 .. Len(iters) :
        /\ iters[g].pc = "running"
        /\ PaginatorStep(g)
        /\ UNCHANGED <<last, pagers>>
        /\ PageUnchanged

Count ==
    \E p \in 1 .. Len(pagers), t \in Tasks :
        PaginatorCount(t, p) /\ UNCHANGED <<iters, clientVars>> /\ PageUnchanged

NumPages ==
    \E p \in 1 .. Len(pagers), t \in Tasks :
        PaginatorNumPages(t, p) /\ UNCHANGED <<iters, clientVars>> /\ PageUnchanged

NextPaging == Paginate \/ BeginIteration \/ FetchPage \/ Count \/ NumPages

SpecPage == InitPage /\ [][NextPaging]_vars

\* the caller keeps asking the generator for its next page
SpecPageFair == SpecPage /\ WF_vars(FetchPage)

(* ------------------- specification: subcollections -------------------- *)
\* one instance more than addresses: an address has to be used again
MaxParents == MaxAddr + 1

LiveAddrs == {a \in 1 .. MaxAddr : heap[a] # 0}
FreeAddrs == {a \in 1 .. MaxAddr : heap[a] = 0}
ManagerRefs == 1 .. Len(managers)

\* the instances the caller still holds
LiveIds == {heap[a] : a \in LiveAddrs}

\* p = Product(...): the instance gets a free address
SubConstruct ==
    \E pk \in {NoPk}, d \in CreateInputs, a \in FreeAddrs :
        /\ Len(docs) < MaxParents
        /\ docs' = Append(docs, NewDocument(pk, d))
        /\ heap' = [heap EXCEPT ![a] = Len(docs) + 1]
        /\ last' = DocEvent(DocTask, "construct", "ok", pk, Len(docs) + 1)
        /\ UNCHANGED <<store, nextId, active, scope, batches, managers, cache, substore, clientVars,
                       queryVars, pageVars>>

\* p = await Product.documents.create(data)
SubCreateParent ==
    \E d \in CreateInputs, a \in FreeAddrs :
        /\ Len(docs) < MaxParents
        /\ nextId <= MaxId
        /\ ManagerCreate(DocTask, d)
        /\ docs' = Append(docs, ToDocument([id |-> nextId, fields |-> d], "created"))
        /\ heap' = [heap EXCEPT ![a] = Len(docs) + 1]
        /\ UNCHANGED <<managers, cache, substore, queryVars, pageVars>>

\* the caller drops an instance: it is freed unless something still refers
\* to it, and its address can be given to an instance made later
Dispose ==
    \E a \in LiveAddrs :
        /\ ~Referenced(a)
        /\ heap' = [heap EXCEPT ![a] = 0]
        /\ last' = DocEvent(DocTask, "dispose", "ok", NoPk, heap[a])
        /\ UNCHANGED <<store, nextId, active, scope, batches, docs, managers, cache, substore, clientVars,
                       queryVars, pageVars>>

\* p.reviews
Access == \E a \in LiveAddrs : SubcollectionGet(DocTask, a) /\ UNCHANGED <<queryVars, pageVars>>

\* Product.reviews
AccessOnClass == SubcollectionGetOnClass(DocTask) /\ UNCHANGED <<queryVars, pageVars>>

\* await p.reviews.create(data)
SubCreate ==
    \E m \in ManagerRefs, d \in CreateInputs :
        /\ Len(docs) < MaxParents
        /\ SubManagerCreate(DocTask, m, d)
        /\ UNCHANGED <<queryVars, pageVars>>

SubPks == {1}

\* await p.reviews.get(pk=pk)
SubGet ==
    \E m \in ManagerRefs, pk \in SubPks :
        /\ Len(docs) < MaxParents
        /\ SubManagerGet(DocTask, m, pk)
        /\ UNCHANGED <<queryVars, pageVars>>

\* [r async for r in p.reviews.filter(**kwargs)]
SubFilter ==
    \E m \in ManagerRefs, kwargs \in KwargsInputs :
        SubManagerFilter(DocTask, m, kwargs) /\ UNCHANGED <<queryVars, pageVars>>

\* await p.reviews.update(pk, data)
SubUpdate ==
    \E m \in ManagerRefs, pk \in SubPks, d \in UpdateInputs :
        SubManagerUpdate(DocTask, m, pk, d) /\ UNCHANGED <<queryVars, pageVars>>

\* await p.reviews.delete(pk)
SubDelete ==
    \E m \in ManagerRefs, pk \in SubPks :
        SubManagerDelete(DocTask, m, pk) /\ UNCHANGED <<queryVars, pageVars>>

\* await d.save()
SubSave ==
    \E i \in LiveIds : DocumentSave(DocTask, i) /\ UNCHANGED <<subVars, queryVars, pageVars>>

NextSub ==
    \/ SubConstruct \/ SubCreateParent \/ Dispose \/ Access \/ AccessOnClass
    \/ SubCreate \/ SubGet \/ SubFilter \/ SubUpdate \/ SubDelete
    \/ SubSave

SpecSub == Init /\ [][NextSub]_vars

(* ------------------- specification: the client handle ----------------- *)
\* Product.documents, Review.documents and the Manager of a Subcollection
ClientManagers ==
    {[doc_klass |-> "Product", parent |-> NoParent], [doc_klass |-> "Review", parent |-> NoParent],
     [doc_klass |-> NestedKlass, parent |-> 1]}

\* m.client read by task t; the property has no await, the read is one step
ReadClient ==
    \E t \in Tasks, m \in ClientManagers :
        /\ ManagerClient
        /\ last' = [Event(t, "client", "ok", NoPk) EXCEPT !.args = <<client', m>>]
        /\ UNCHANGED <<store, nextId, active, scope, batches, docVars, queryVars, pageVars, subVars>>

NextClient == ReadClient \/ Enter \/ ExitNormal \/ ExitRaise \/ Create

SpecClient == Init /\ [][NextClient]_vars

(* ------------------------- claims: the batch --------------------------- *)
WriteOps == {"create", "update", "delete"}
BatchIds == 1 .. Len(batches)
OpenBatches == {b \in BatchIds : batches[b].exit = "open"}

\* the write at position i is the last one of ws on its document
LastOnPk(ws, i) == \A j \in (i + 1) .. Len(ws) : ws[j].pk # ws[i].pk

\* the effect of write w can be read from store st
Visible(w, st) ==
    CASE w.kind = "set" -> w.pk \in DOMAIN st /\ st[w.pk] = w.data
      [] w.kind = "update" -> w.pk \in DOMAIN st /\ \A f \in DOMAIN w.data : st[w.pk][f] = w.data[f]
      [] w.kind = "delete" -> w.pk \notin DOMAIN st

\* a write issued by a task inside its scope is enqueued and leaves the store alone
StagedNotExecuted ==
    \A t \in Tasks :
        (last'.task = t /\ last'.op \in WriteOps /\ scope[t] # NoBatch) =>
            /\ store' = store
            /\ Len(batches'[scope[t]].ops) = Len(batches[scope[t]].ops) + 1

\* a document created in a scope that is still open cannot be read
OpenCreatesUnread ==
    \A b \in OpenBatches : \A i \in 1 .. Len(batches[b].ops) :
        batches[b].ops[i].kind = "set" =>
            /\ batches[b].ops[i].pk \notin DOMAIN store
            /\ (last.op = "get" /\ last.pk = batches[b].ops[i].pk) => last.outcome = "DoesNotExist"

\* the normal exit makes the writes of the scope readable
VisibleAfterExit ==
    \A b \in BatchIds :
        (batches[b].exit = "open" /\ batches'[b].exit = "normal") =>
            \A i \in 1 .. Len(batches[b].ops) :
                LastOnPk(batches[b].ops, i) => Visible(batches[b].ops[i], store')

\* C1: writes issued inside a batch() scope are staged and not executed: no
\* read sees them before the scope exits normally, and after the normal exit
\* every staged write (the last one on each document) is visible.
C1_StagedUntilNormalExit ==
    [][StagedNotExecuted /\ OpenCreatesUnread' /\ VisibleAfterExit]_vars

\* a scope that staged a create and an update of it has exited normally
C1_Witness ==
    \E b \in BatchIds :
        /\ batches[b].exit = "normal"
        /\ Len(batches[b].ops) = 2
        /\ batches[b].ops[1].kind = "set"
        /\ batches[b].ops[2].kind = "update"
        /\ 1 \in DOMAIN store
        /\ store[1].price = 2

\* C2: a scope commits exactly once when its body finishes normally and never
\* when the body raises; the writes of a scope left by an exception are not
\* applied: its exit leaves the store as it was and no document it created
\* is ever stored.
C2_CommitOnlyOnNormalExit ==
    [][/\ \A b \in BatchIds :
            /\ (batches[b].exit = "open" /\ batches'[b].exit = "normal") => batches'[b].commits = 1
            /\ (batches[b].exit = "open" /\ batches'[b].exit = "raised") => store' = store
            /\ batches[b].exit # "open" => batches'[b] = batches[b]
       /\ \A b \in 1 .. Len(batches') :
            /\ batches'[b].exit = "normal" => batches'[b].commits = 1
            /\ batches'[b].exit = "raised" =>
                /\ batches'[b].commits = 0
                /\ \A i \in 1 .. Len(batches'[b].ops) :
                      batches'[b].ops[i].kind = "set" => batches'[b].ops[i].pk \notin DOMAIN store']_vars

\* a scope that staged a create was left by an exception
C2_Witness ==
    \E b \in BatchIds :
        /\ batches[b].exit = "raised"
        /\ Len(batches[b].ops) > 0
        /\ batches[b].ops[1].kind = "set"

\* C3: every exit from a scope clears the active-batch handle of the task:
\* its later writes execute immediately and it can enter a new batch().
C3_HandleClearedOnExit ==
    [][\A t \in Tasks :
        /\ (scope[t] # NoBatch /\ scope'[t] = NoBatch) => active'[t] = NoBatch
        /\ (scope[t] = NoBatch /\ last'.task = t /\ last'.op \in WriteOps) =>
              /\ batches' = batches
              /\ last'.op = "create" => last'.pk \in DOMAIN store'
        /\ (scope[t] = NoBatch /\ last'.task = t /\ last'.op = "enter") =>
              /\ last'.outcome = "ok"
              /\ scope'[t] = Len(batches')
              /\ active'[t] = Len(batches')]_vars

\* after a commit that failed the same task has entered a second scope
C3_Witness ==
    /\ Len(batches) = 2
    /\ batches[1].exit = "commit_failed"
    /\ batches[2].owner = batches[1].owner
    /\ scope[batches[1].owner] = 2

\* after a scope left by an exception the task has created a document at once
C3_WitnessWrite ==
    /\ Len(batches) = 1
    /\ batches[1].exit = "raised"
    /\ last.task = batches[1].owner
    /\ last.op = "create"
    /\ last.pk \in DOMAIN store

\* the entry of a batch() while one is active in the context fails with `exc`
\* and changes neither the batches nor the handle
NestedEnterRaises(exc) ==
    \A t \in Tasks :
        (last'.task = t /\ last'.op = "enter" /\ active[t] # NoBatch) =>
            /\ last'.outcome = exc
            /\ batches' = batches
            /\ active' = active
            /\ scope' = scope

\* C4 as claimed: entering batch() while a batch is active raises ValueError,
\* creates and publishes no batch and leaves the active one active.
C4_NestedEnterRaisesValueError == [][NestedEnterRaises("ValueError")]_vars

\* C4 amended: the error raised is RuntimeError.
C4_NestedEnterRaisesRuntimeError == [][NestedEnterRaises("RuntimeError")]_vars

\* a nested entry was refused while the task's scope stays open with its write
C4_Witness ==
    /\ last.op = "enter"
    /\ last.outcome = "RuntimeError"
    /\ scope[last.task] # NoBatch
    /\ active[last.task] = scope[last.task]
    /\ Len(batches[scope[last.task]].ops) > 0

\* C5: with two tasks in their own scopes every write is staged on the batch of
\* the task that issued it, a commit applies exactly the writes of its task,
\* and a task without an active batch writes to the store immediately.
C5_BatchesIsolated ==
    [][/\ \A b \in 1 .. Len(batches') : \A i \in 1 .. Len(batches'[b].ops) :
            batches'[b].ops[i].by = batches'[b].owner
       /\ \A t \in Tasks :
            /\ (last'.task = t /\ last'.op \in WriteOps /\ scope[t] # NoBatch) =>
                  /\ store' = store
                  /\ \A b \in BatchIds :
                        IF b = scope[t]
                        THEN /\ Len(batches'[b].ops) = Len(batches[b].ops) + 1
                             /\ batches'[b].ops[Len(batches'[b].ops)].pk = last'.pk
                             /\ batches'[b].ops[Len(batches'[b].ops)].by = t
                        ELSE batches'[b] = batches[b]
            /\ (last'.task = t /\ last'.op \in WriteOps /\ scope[t] = NoBatch) =>
                  /\ batches' = batches
                  /\ last'.op = "create" => last'.pk \in DOMAIN store'
                  /\ last'.op = "delete" => last'.pk \notin DOMAIN store'
            /\ (last'.task = t /\ last'.op = "exit" /\ last'.outcome = "ok") =>
                  /\ store' = CommitResult(store, batches[scope[t]].ops).st
                  /\ \A b \in BatchIds \ {scope[t]} : batches'[b] = batches[b]]_vars

\* both tasks are inside their own scope, each with a staged write of its own
C5_Witness ==
    /\ scope["t1"] # NoBatch
    /\ scope["t2"] # NoBatch
    /\ scope["t1"] # scope["t2"]
    /\ Len(batches[scope["t1"]].ops) = 1
    /\ Len(batches[scope["t2"]].ops) = 1

\* one task has committed its scope while the other task's scope is still open
C5_WitnessCommit ==
    \E b, c \in BatchIds :
        /\ batches[b].exit = "normal"
        /\ Len(batches[b].ops) > 0
        /\ batches[c].exit = "open"
        /\ Len(batches[c].ops) > 0
        /\ batches[b].owner # batches[c].owner

(* -------------------------- claims: the Query -------------------------- *)
\* what a query selects: its filters, ordering, limit and cursors by value
QueryValue(qs, ls, r) ==
    [where |-> ls[qs[r].where], order |-> ls[qs[r].order], limit |-> qs[r].limit,
     start_after |-> qs[r].start_after, start_at |-> qs[r].start_at]

\* C6: filter, order_by, limit, start_after and start_at return a new Query
\* object and leave the filters, ordering, limit and cursors of every
\* existing query, the receiver included, as they were.
C6_ChainLeavesReceiver ==
    [][/\ Len(queries') >= Len(queries)
       /\ \A r \in QueryRefs : QueryValue(queries', lists', r) = QueryValue(queries, lists, r)]_vars

\* a base query, the query filter() made of it and the query order_by()
\* made of that one
C6_Witness ==
    /\ Len(queries) >= 3
    /\ QueryValue(queries, lists, 1).where = <<>>
    /\ QueryValue(queries, lists, 2).where # <<>>
    /\ QueryValue(queries, lists, 2).order = <<>>
    /\ QueryValue(queries, lists, 3).where = QueryValue(queries, lists, 2).where
    /\ QueryValue(queries, lists, 3).order # <<>>

\* the outcome get() owes to the set of matching records
SingleMatch(S, ev) ==
    /\ S = {} => ev.outcome = "DoesNotExist"
    /\ Cardinality(S) = 1 => ev.outcome = "ok" /\ ev.pk \in S
    /\ Cardinality(S) >= 2 => ev.outcome = "MultipleObjectsFound"

CursorFree(q) == q.start_after = NoCursor /\ q.start_at = NoCursor

C7_SaveCreatesOrUpdates ==
    last.op = "save" =>
        /\ last.outcome = "ok"
        /\ docs[last.inst].id # NoPk
        /\ ActiveBatch(last.task) = NoBatch =>
              /\ Stored(docs[last.inst].id)
              /\ store[docs[last.inst].id] = docs[last.inst].data

\* C8: once the pk of an instance is non-null, no save, update, refresh or
\* delete on the instance changes it.
C8_PkImmutable ==
    [][\A i \in DocIds : docs[i].id # NoPk => docs'[i].id = docs[i].id]_vars

\* a refresh has overwritten the fields of an instance that keeps its pk
C8_Witness ==
    /\ last.op = "refresh"
    /\ last.outcome = "ok"
    /\ docs[last.inst].id = last.pk
    /\ docs[last.inst].id # NoPk
    /\ docs[last.inst].data.price = 2

\* save was called on an instance whose pk is set
C8_WitnessSave ==
    /\ last.op = "save"
    /\ docs[last.inst].id # NoPk
    /\ docs[last.inst].id = last.pk

StagedInOpen(bs, pk) ==
    \E b \in 1 .. Len(bs) : \E j \in 1 .. Len(bs[b].ops) :
        bs[b].exit = "open" /\ bs[b].ops[j].kind = "set" /\ bs[b].ops[j].pk = pk

C11_ReadObservesWrite ==
    (last.task \in Tasks /\ ActiveBatch(last.task) = NoBatch) =>
        /\ last.op = "save" =>
              /\ last.outcome = "ok"
              /\ Stored(docs[last.inst].id)
              /\ SnapshotData(docs[last.inst].id).fields = docs[last.inst].data
        /\ (last.op = "create" /\ last.outcome = "ok") => Stored(last.pk)
        /\ (last.op = "update" /\ last.outcome = "ok") =>
              /\ Stored(last.pk)
              /\ \E d \in UpdateInputs : \A k \in DOMAIN d : store[last.pk][k] = d[k]
        /\ (last.op = "delete" /\ last.outcome = "ok") => ~Stored(last.pk)

(* ----------------------- claims: cursors and limit --------------------- *)
\* the query that was iterated last, by value
Iterated == QueryValue(queries, lists, last.inst)

\* C12: iterating a query without order_by on which start_after or start_at
\* was called with any cursor raises ValueError.
C12_CursorNeedsOrderBy ==
    (last.op = "iterate" /\ Iterated.order = <<>>
        /\ (Iterated.start_after # NoCursor \/ Iterated.start_at # NoCursor))
    => last.outcome = "ValueError"

\* a value that is neither a mapping nor a model
Unsupported(c) == c.kind \in {"other", "zero"}

\* C13: iterating an ordered query whose start_after or start_at cursor is
\* neither a mapping nor a model raises InvalidCursor and yields no document.
C13_UnsupportedCursorRaises ==
    (last.op = "iterate" /\ Iterated.order # <<>>
        /\ (Unsupported(Iterated.start_after) \/ Unsupported(Iterated.start_at)))
    => (last.outcome = "InvalidCursor" /\ last.args = <<>>)

\* the document id follows the direction of the last order_by field
IdAfter(pk, id, order) == IF Descending(order[Len(order)]) THEN pk < id ELSE pk > id

\* the stored record pk is strictly after the cursor in the order: after the
\* cursor values, or for a Document cursor tied with it and behind its id
StrictlyAfter(pk, c, order) ==
    LET side == CursorSide(store[pk], c.vals, order)
    IN \/ side = "after"
       \/ side = "at" /\ c.kind = "doc" /\ IdAfter(pk, c.vals.id, order)

\* the stored record pk is at or after the cursor in the order
AtOrAfter(pk, c, order) ==
    LET side == CursorSide(store[pk], c.vals, order)
    IN \/ side = "after"
       \/ side = "at" /\ (c.kind = "doc" => (pk = c.vals.id \/ IdAfter(pk, c.vals.id, order)))

\* a mapping or Document that holds every order_by field
ValidCursor(c, order) ==
    /\ c.kind \in {"dict", "doc"}
    /\ \A i \in 1 .. Len(order) : OrderName(order[i]) \in DOMAIN c.vals

\* the first n of a sequence
FirstN(seq, n) == IF Len(seq) > n THEN SubSeq(seq, 1, n) ELSE seq

\* the ordered matching records of the iterated query
OrderedMatches == Stream(WherePks(Iterated.where), Iterated.order)

\* what the limit of the iterated query leaves of a result
Limited(seq) == IF Iterated.limit = NoLimit THEN seq ELSE FirstN(seq, Iterated.limit)

\* C14: an ordered query with start_after(c) yields the matching records
\* strictly after c in the order, one with start_at(c) those at or after c,
\* in the order and cut at the limit (limit not 0); so the page after a page
\* starts right behind its last item.
C14_CursorBounds ==
    (last.op = "iterate" /\ Iterated.order # <<>> /\ Iterated.limit # 0) =>
        /\ (ValidCursor(Iterated.start_after, Iterated.order) /\ Iterated.start_at = NoCursor) =>
              /\ last.outcome = "ok"
              /\ LET After(pk) == StrictlyAfter(pk, Iterated.start_after, Iterated.order)
                 IN last.args = Limited(SelectSeq(OrderedMatches, After))
        /\ (ValidCursor(Iterated.start_at, Iterated.order) /\ Iterated.start_after = NoCursor) =>
              /\ last.outcome = "ok"
              /\ LET From(pk) == AtOrAfter(pk, Iterated.start_at, Iterated.order)
                 IN last.args = Limited(SelectSeq(OrderedMatches, From))

\* C20: iterating a query on which limit(n) was set, n >= 0, yields at most
\* n documents.
C20_LimitCaps ==
    (last.op = "iterate" /\ last.outcome = "ok" /\ Iterated.limit # NoLimit)
    => Len(last.args) <= Iterated.limit

(* ------------------------ claims: the Paginator ------------------------ *)
IterIds == 1 .. Len(iters)

\* the query the paginator of the generator g wraps, by value
Wrapped(g) == QueryValue(queries, lists, pagers[iters[g].pager].query)

RECURSIVE PageItems(_)
\* the documents of the pages, one page after the other
PageItems(pages) ==
    IF pages = <<>> THEN <<>> ELSE Head(pages).object_list \o PageItems(Tail(pages))

\* C15: every iteration of a Paginator ends, whatever limit or cursors the
\* wrapped query carries: the generator stops after a short or an empty page
\* (or by raising).
C15_IterationTerminates ==
    \A g \in 1 .. MaxIters :
        [](Len(iters) >= g => <>(Len(iters) >= g /\ iters[g].pc # "running"))

\* an ordered query without limit and cursors
PlainOrdered(q) ==
    q.order # <<>> /\ q.limit = NoLimit /\ q.start_after = NoCursor /\ q.start_at = NoCursor

\* C16: over an ordered query the pages are numbered 1, 2, 3, ..., each
\* holds between 1 and per_page documents, no error is raised, and the pages
\* of an iteration that has ended are, one after the other, the ordered
\* result of the query: every matching document once.
C16_PagesCoverResult ==
    \A g \in IterIds :
        PlainOrdered(Wrapped(g)) =>
            /\ iters[g].pc # "raised"
            /\ \A k \in 1 .. Len(iters[g].pages) :
                  /\ iters[g].pages[k].number = k
                  /\ Len(iters[g].pages[k].object_list) \in 1 .. pagers[iters[g].pager].per_page
            /\ iters[g].pc = "done" =>
                  PageItems(iters[g].pages) = Stream(WherePks(Wrapped(g).where), Wrapped(g).order)

\* C17: iterating a Paginator over a query without order_by (and without
\* cursors) raises no error, also when the results span several pages.
C17_UnorderedPagesNoError ==
    \A g \in IterIds :
        (Wrapped(g).order = <<>> /\ Wrapped(g).start_after = NoCursor
            /\ Wrapped(g).start_at = NoCursor)
        => iters[g].pc # "raised"

\* C18 as claimed: a later iteration of the same Paginator does not start
\* again from page 1.
C18_OneShot ==
    \A g \in IterIds, h \in IterIds :
        (h < g /\ iters[h].pager = iters[g].pager) =>
            ~(iters[g].pages # <<>> /\ iters[g].pages[1].number = 1)

\* C18 amended: within an iteration the pages are numbered forward from 1,
\* and every iteration of a Paginator, the first and each later one on the
\* same instance, starts from page 1 without cursor: two iterations that
\* have ended yielded the same pages.
C18_EachIterationStartsAtPageOne ==
    \A g \in IterIds :
        /\ \A k \in 1 .. Len(iters[g].pages) : iters[g].pages[k].number = k
        /\ \A h \in IterIds :
              (h < g /\ iters[h].pager = iters[g].pager
                  /\ iters[h].pc # "running" /\ iters[g].pc # "running")
              => (iters[g].pages = iters[h].pages /\ iters[g].pc = iters[h].pc)

\* the second iteration of a Paginator has ended after two pages, the first
\* of them numbered 1
C18_Witness ==
    \E g \in IterIds, h \in IterIds :
        /\ h < g
        /\ iters[h].pager = iters[g].pager
        /\ iters[g].pc = "done"
        /\ Len(iters[g].pages) >= 2
        /\ iters[g].pages[1].number = 1

\* C19: the count aggregation of a Paginator is run at most once, and every
\* evaluation of count() and num_pages returns the result of that run.
C19_CountRunsOnce ==
    /\ \A p \in 1 .. Len(pagers) : pagers[p].runs <= 1
    /\ last.op \in {"count", "num_pages"} =>
          /\ last.outcome = "ok"
          /\ pagers[last.inst].runs = 1
          /\ last.args[1] = (IF last.op = "count"
                             THEN CountAggregation(pagers[last.inst].query)
                             ELSE CeilDiv(CountAggregation(pagers[last.inst].query),
                                          pagers[last.inst].per_page))

(* -------------------- claims: the handle after delete ------------------ *)
\* C21: after delete() on a saved Document the local pk is still set and the
\* stored record is gone, and every later operation that refers to that pk
\* through the instance or its manager (Manager.get(pk), refresh(), update(),
\* save()) fails with DoesNotExist.
C21_DeletedHandleFails ==
    \A i \in DocIds :
        (docs[i].deleteCalled /\ docs[i].origin # "constructor"
            /\ last.task \in Tasks /\ ActiveBatch(last.task) = NoBatch) =>
            /\ docs[i].id # NoPk
            /\ (last.op = "delete" /\ last.pk = docs[i].id) => ~Stored(docs[i].id)
            /\ (~Stored(docs[i].id) /\ last.pk = docs[i].id
                    /\ last.op \in {"get", "refresh", "update", "save"}) =>
                  last.outcome = "DoesNotExist"

(* ------------- specification: tasks started inside a scope ------------ *)
\* task p starts task c (asyncio.create_task, asyncio.gather): the new task
\* runs in a copy of the context of p, so _active_batch.get() in c returns
\* what it returned in p at that moment; a reset in p does not reach the copy
Spawn ==
    \E p \in Tasks, c \in Tasks :
        /\ c # p
        /\ scope[c] = NoBatch
        /\ active' = SetActive(c, ActiveBatch(p))
        /\ last' = Event(p, "spawn", "ok", NoPk)
        /\ UNCHANGED <<store, nextId, scope, batches, clientVars, docVars, queryVars, pageVars, subVars>>

NextSpawn == Spawn \/ Enter \/ ExitNormal \/ ExitRaise \/ Create \/ Update \/ Delete

SpecSpawn == Init /\ [][NextSpawn]_vars

(* ------------------------ claims: subcollections ----------------------- *)
SubOps == {"sub.create", "sub.get", "sub.filter", "sub.update", "sub.delete"}

\* the parent instance of the subcollection manager of the last operation
LastParent == Instance(managers[last.inst].parent)

\* C22: every operation of a subcollection manager addresses the path
\* parent_collection/parent_pk/sub_collection_name of its own parent, and so
\* a get or a query returns only documents stored under that parent.
C22_SubPathOfOwnParent ==
    (last.op \in SubOps /\ LastParent.id # NoPk) =>
        /\ Len(last.args) >= 3
        /\ SubSeq(last.args, 1, 3) =
              <<CollectionName("Product"), LastParent.id, CollectionName(NestedKlass)>>
        /\ (last.op = "sub.get" /\ last.outcome = "ok") =>
              <<LastParent.id, last.pk>> \in DOMAIN substore
        /\ last.op = "sub.filter" =>
              \A pk \in last.args[4] : <<LastParent.id, pk>> \in DOMAIN substore

\* C23: reading a Subcollection attribute on a parent instance returns a
\* Manager whose parent is that very instance and whose document type is the
\* nested type; every read on the same instance returns the same Manager; no
\* two distinct instances, live or disposed, ever receive the same Manager;
\* a read on the class returns the descriptor and makes no Manager.
C23_ManagerPerInstance ==
    [][/\ \A i \in 1 .. Len(docs) :
            docs[i].received # NoManager => docs'[i].received = docs[i].received
       /\ \A i, j \in 1 .. Len(docs') :
            (i # j /\ docs'[i].received # NoManager) => docs'[i].received # docs'[j].received
       /\ (last'.op = "reviews" /\ last'.outcome = "ok") =>
            /\ last'.args[1] \in 1 .. Len(managers')
            /\ docs'[last'.inst].received = last'.args[1]
            /\ heap'[managers'[last'.args[1]].parent] = last'.inst
            /\ managers'[last'.args[1]].doc_klass = NestedKlass
       /\ (last'.op = "reviews" /\ last'.outcome = "descriptor") =>
            (managers' = managers /\ cache' = cache)]_vars

\* an instance reads its attribute again after another instance got its own
\* Manager and a third instance was disposed
C23_Witness ==
    /\ last.op = "reviews"
    /\ last.outcome = "ok"
    /\ last.args[1] < Len(managers)
    /\ \E i \in 1 .. Len(docs) :
          i # last.inst /\ docs[i].received # NoManager /\ docs[i].received # last.args[1]
    /\ \E k \in 1 .. Len(docs) : k \notin LiveIds

(* ----------------------- claims: the client handle --------------------- *)
\* the clients constructed at a site
ConstructedAt(site) == {k \in 1 .. Len(clients) : clients[k] = site}

\* C24 as claimed: over any run the driver client is constructed at most once.
C24_ClientConstructedOnce == Len(clients) <= 1

\* C24 amended: Manager.client constructs a driver client at most once, the
\* handle is never replaced, and every read of the property by any task on
\* any Manager returns that handle; every entry of a batch() scope
\* constructs one more driver client for its write batch.
C24_OneHandleForManagers ==
    [][/\ Cardinality(ConstructedAt("Manager.client")') <= 1
       /\ client # NoClient => client' = client
       /\ client' # NoClient => clients'[client'] = "Manager.client"
       /\ (last'.op = "client" /\ last' # last) =>
             (client' # NoClient /\ last'.args[1] = client')
       /\ Cardinality(ConstructedAt("atomic.batch")') = Len(batches')]_vars

\* the second task reads the client of the Manager of a Subcollection after
\* a client was constructed for a write batch and one for the Managers
C24_Witness ==
    /\ last.op = "client"
    /\ last.task = "t2"
    /\ last.args[2].parent # NoParent
    /\ last.args[1] = client
    /\ ConstructedAt("atomic.batch") # {}
    /\ Len(clients) >= 2

(* ------------------------ claims: chains of calls ---------------------- *)
\* the calls of one kind, in the order they were made
CallsOf(calls, kind) == SelectSeq(calls, LAMBDA c : c.kind = kind)

RECURSIVE Flatten(_)
\* the concatenation of a sequence of sequences
Flatten(ss) == IF ss = <<>> THEN <<>> ELSE Head(ss) \o Flatten(Tail(ss))

\* the query a chain yields when its calls are made kind by kind: the
\* filters of the filter calls after those of the base, the fields of the
\* order_by calls after those of the base, the count of the last limit call
KindByKind(base, calls) ==
    [where |-> base.where \o
               Flatten([k \in 1 .. Len(CallsOf(calls, "filter")) |->
                           FieldFilters(CallsOf(calls, "filter")[k].kwargs)]),
     order |-> base.order \o
               Flatten([k \in 1 .. Len(CallsOf(calls, "order_by")) |->
                           CallsOf(calls, "order_by")[k].fields]),
     limit |-> IF CallsOf(calls, "limit") = <<>> THEN base.limit
               ELSE CallsOf(calls, "limit")[Len(CallsOf(calls, "limit"))].count]

\* C25: chaining is order independent: whatever the relative order of the
\* filter, order_by and limit calls of a chain, the Query it yields has the
\* filters, the order-by list and the limit that the same calls yield when
\* they are made kind by kind.
C25_ChainOrderIndependent ==
    last.op = "chain" =>
        LET q == QueryValue(queries, lists, last.inst)
            made == KindByKind(QueryValue(queries, lists, 1), last.args)
        IN /\ q.where = made.where
           /\ q.order = made.order
           /\ q.limit = made.limit

\* a chain that calls limit, then order_by, then filter on a base query
\* that has a filter and an ordering of its own
C25_Witness ==
    /\ last.op = "chain"
    /\ Len(last.args) = 3
    /\ last.args[1].kind = "limit"
    /\ last.args[2].kind = "order_by"
    /\ last.args[3].kind = "filter"
    /\ QueryValue(queries, lists, 1).where # <<>>
    /\ QueryValue(queries, lists, 1).order # <<>>
    /\ Len(QueryValue(queries, lists, last.inst).where) >= 2
    /\ Len(QueryValue(queries, lists, last.inst).order) >= 2
    /\ QueryValue(queries, lists, last.inst).limit = last.args[1].count

\* the ten lookup names
LookupNames ==
    {"eq", "ne", "gt", "gte", "lt", "lte", "in", "not_in", "contains", "contains_any"}

\* the filter triple C26 claims for a keyword: the lookup of the last part
\* whenever the last part is a lookup name
ClaimedTriple(kw) ==
    IF kw.key[Len(kw.key)] \in LookupNames
    THEN [field_path |-> SubSeq(kw.key, 1, Len(kw.key) - 1),
          op_string |-> LOOKUP_OPERATORS[kw.key[Len(kw.key)]], value |-> kw.value]
    ELSE [field_path |-> kw.key, op_string |-> "==", value |-> kw.value]

\* the filter triple of a keyword: the lookup of the last part when the key
\* has more parts than one and the last part is a lookup name
SplitTriple(kw) ==
    IF Len(kw.key) > 1 /\ kw.key[Len(kw.key)] \in LookupNames
    THEN [field_path |-> SubSeq(kw.key, 1, Len(kw.key) - 1),
          op_string |-> LOOKUP_OPERATORS[kw.key[Len(kw.key)]], value |-> kw.value]
    ELSE [field_path |-> kw.key, op_string |-> "==", value |-> kw.value]

\* the last call of the chain was filter(**kwargs)
FilterCalled == last.op = "chain" /\ last.args # <<>> /\ last.args[Len(last.args)].kind = "filter"

\* the keywords of the last call
LastKwargs == last.args[Len(last.args)].kwargs

\* the filters of the query filter() returned are those of its receiver
\* followed by the triples
Appended(triples) ==
    QueryValue(queries, lists, last.inst).where =
        QueryValue(queries, lists, last.inst - 1).where \o triples

\* C26 as claimed: Query.filter appends one triple for each keyword after
\* the existing ones; a key whose last part is a lookup name gets that
\* lookup's operator and the remaining parts as field path, every other key
\* gets == and all of its parts.
C26_LastPartLookup ==
    FilterCalled => Appended([k \in 1 .. Len(LastKwargs) |-> ClaimedTriple(LastKwargs[k])])

\* C26 amended: as claimed, but only a key of more parts than one whose
\* last part is a lookup name gets the lookup's operator; a key of one part
\* gets == and itself as field path even when it is a lookup name.
C26_SuffixLookup ==
    FilterCalled => Appended([k \in 1 .. Len(LastKwargs) |-> SplitTriple(LastKwargs[k])])

\* filter() with two keywords, one of them with a lookup, on a query that
\* has filters already
C26_Witness ==
    /\ FilterCalled
    /\ Len(last.args[Len(last.args)].kwargs) = 2
    /\ QueryValue(queries, lists, last.inst - 1).where # <<>>
    /\ Len(QueryValue(queries, lists, last.inst).where) =
          Len(QueryValue(queries, lists, last.inst - 1).where) + 2
    /\ QueryValue(queries, lists, last.inst).where[Len(QueryValue(queries, lists, last.inst).where)]
          = [field_path |-> <<"price">>, op_string |-> "<=", value |-> 2]

\* filter() with the one-part keyword `contains`
C26_WitnessOnePart ==
    /\ FilterCalled
    /\ last.args[Len(last.args)].kwargs = <<[key |-> <<"contains">>, value |-> 1]>>
    /\ QueryValue(queries, lists, last.inst).where[Len(QueryValue(queries, lists, last.inst).where)]
          = [field_path |-> <<"contains">>, op_string |-> "==", value |-> 1]

(* ------------------------ claims: update and save ---------------------- *)
\* the write of an update of the given fields only
OnlyGiven(w, pk) == w.kind = "update" /\ w.pk = pk /\ w.data \in UpdateInputs

\* C27: Document.update(**fields) sends the given fields, and no others, to
\* Manager.update and leaves every local field value of the instance as it
\* was; the local values change on refresh() only, which overwrites them
\* with the values stored at that time.
C27_UpdateLeavesLocal ==
    [][/\ last'.op = "update" => docs' = docs
       /\ (last'.op = "update" /\ last'.outcome = "ok" /\ last' # last) =>
             IF ActiveBatch(last'.task) # NoBatch
             THEN LET ops == batches'[ActiveBatch(last'.task)].ops
                  IN /\ store' = store
                     /\ Len(ops) = Len(batches[ActiveBatch(last'.task)].ops) + 1
                     /\ OnlyGiven(ops[Len(ops)], last'.pk)
             ELSE \E d \in UpdateInputs :
                     store' = [store EXCEPT ![last'.pk] =
                                  [f \in DOMAIN @ \cup DOMAIN d |->
                                      IF f \in DOMAIN d THEN d[f] ELSE @[f]]]
       /\ \A i \in DocIds :
             docs'[i].data # docs[i].data =>
                /\ last'.op = "refresh" /\ last'.inst = i /\ last'.outcome = "ok"
                /\ docs'[i].data = store[docs[i].id]]_vars

\* an update was executed and the instance still holds the value it had
C27_Witness ==
    /\ last.op = "update"
    /\ last.outcome = "ok"
    /\ Stored(last.pk)
    /\ store[last.pk].price = 2
    /\ \E i \in DocIds : docs[i].id = last.pk /\ docs[i].data.price = 1

\* a refresh has brought the updated value to the instance
C27_WitnessRefresh ==
    /\ last.op = "refresh"
    /\ last.outcome = "ok"
    /\ docs[last.inst].origin = "created"
    /\ docs[last.inst].data = store[last.pk]
    /\ docs[last.inst].data.price = 2

\* C28: save() on a newly constructed Document that carries a pk the caller
\* supplied, with no record stored under it, persists the record under that
\* very pk: no other identifier is allocated and the pk of the instance is
\* the same afterwards.
C28_SaveKeepsSuppliedPk ==
    [][(/\ last'.op = "save"
        /\ last' # last
        /\ docs[last'.inst].origin = "constructor"
        /\ docs[last'.inst].id = CustomPk
        /\ ~Stored(CustomPk)) =>
            /\ last'.outcome = "ok"
            /\ nextId' = nextId
            /\ docs'[last'.inst].id = CustomPk
            /\ ActiveBatch(last'.task) = NoBatch =>
                  store' = DriverSet(store, CustomPk, docs[last'.inst].data)]_vars


(* ---------------- claims: documents bound to a Manager ---------------- *)
InstanceOps == {"save", "update", "refresh", "delete"}

\* C29: a Document returned by a Manager performs its own save, update,
\* refresh and delete against the collection path of that Manager: the call
\* gets to the collection, and a saved document of a subcollection manager
\* is stored under the parent and not in the top-level collection.
C29_InstanceOpsOnManagerPath ==
    (/\ last.op \in InstanceOps
     /\ docs[last.inst].origin # "constructor"
     /\ docs[last.inst].id # NoPk) =>
        /\ last.outcome \notin {"TypeError", "AttributeError"}
        /\ (last.op = "save" /\ docs[last.inst].manager = TopManager) =>
              /\ Stored(docs[last.inst].id)
              /\ store[docs[last.inst].id] = docs[last.inst].data
        /\ (last.op = "save" /\ docs[last.inst].manager # TopManager) =>
              /\ SubKey(docs[last.inst].manager, docs[last.inst].id) \in DOMAIN substore
              /\ ~Stored(docs[last.inst].id)


(* ------------------- claims: writes after the scope ------------------- *)
\* C30: no Manager write is enqueued on a batch whose scope has exited, also
\* by a task that was started inside the scope and runs on after it: nothing
\* is appended to an exited batch, and a create issued while no scope is
\* open is in the store when it returns.
C30_NoWriteOnExitedBatch ==
    [][/\ \A b \in 1 .. Len(batches) :
            batches[b].exit # "open" => batches'[b].ops = batches[b].ops
       /\ (/\ last'.op = "create"
           /\ nextId' = nextId + 1
           /\ \A b \in 1 .. Len(batches) : batches[b].exit # "open") => nextId \in DOMAIN store']_vars

====
